---- MODULE Spec2Model ----
(***************************************************************************)
(* A model of the IP-geolocation tools of mcp_servers/ip_location_server.py *)
(* (validator, primary and backup provider adapters, fallback selection,   *)
(* formatter, self-lookup), of the WHOIS tools of                          *)
(* mcp_servers/getDomainInfo_server.py and of weather_server.py.           *)
(*                                                                         *)
(* Python strings are TLA+ strings.  TLA+ string literals are ASCII, so the *)
(* Chinese literals and the emoji of the source are written as the ASCII   *)
(* texts defined in the section "Literals"; every such literal is a fixed  *)
(* non-empty text, as in the source.                                       *)
(***************************************************************************)
EXTENDS Integers, Sequences, FiniteSets, TLC

VARIABLES
    tool,           \* the tool being invoked: "none", "query_ip_location", "get_my_ip_location", or a pure function under test
    pc,             \* the position of the invocation in the tool's code
    ip_address,     \* the argument of query_ip_location / validate_ip_address
    current_ip,     \* get_my_ip_location's local current_ip ("" until obtained)
    valid,          \* the value validate_ip_address returned (FALSE before the call)
    result,         \* the local `result` (a dict), NoValue until assigned
    backup_result,  \* the local `backup_result` (a dict), NoValue until assigned
    data,           \* the dict handed to format_location_info, NoValue until it is called
    inflight,       \* the outbound requests awaiting their response
    calls,          \* the adapter calls of this invocation, in order
    requests,       \* the outbound requests issued by this invocation, in order
    responses,      \* history: the response outcome each request of this invocation received
    ret,            \* the string the tool returned ("" until it returns)
    raised,         \* TRUE when an exception left the tool
    first_failure,  \* history: the first discovery-failure message returned so far ("" if none)
    invocations,    \* the number of invocations completed so far
    domains,        \* getDomainInfo_server: the argument of batch_query_domains
    domain,         \* getDomainInfo_server: the argument of check_domain_availability
    domain_list,    \* batch_query_domains' local domain_list
    domain_data,    \* history: the dict fetch_domain_info returned for each lookup, in order
    results,        \* batch_query_domains' local results
    lookups,        \* history: the domains whois.whois was called with, in order
    city,           \* weather_server: the argument of query_weather
    API_KEY         \* weather_server: the module's API_KEY (None is written "")

\* the variables of the domain and weather servers
other_vars == <<domains, domain, domain_list, domain_data, results, lookups, city, API_KEY>>

vars == <<tool, pc, ip_address, current_ip, valid, result, backup_result, data,
          inflight, calls, requests, responses, ret, raised, first_failure, invocations,
          domains, domain, domain_list, domain_data, results, lookups, city, API_KEY>>

\* the domain and weather servers are not in use
OtherServersIdle ==
    /\ domains = ""
    /\ domain = ""
    /\ domain_list = <<>>
    /\ domain_data = <<>>
    /\ results = <<>>
    /\ lookups = <<>>
    /\ city = ""
    /\ API_KEY = ""

(***************************************************************************)
(* Bounds                                                                  *)
(***************************************************************************)
MaxInvocations == 2

(***************************************************************************)
(* Strings                                                                 *)
(***************************************************************************)
Char(s, i) == SubSeq(s, i, i)

Contains(s, t) ==
    \E i \in 1..(Len(s) - Len(t) + 1) : SubSeq(s, i, i + Len(t) - 1) = t

StartsWith(s, t) == Len(t) <= Len(s) /\ SubSeq(s, 1, Len(t)) = t

DecDigits == {"0", "1", "2", "3", "4", "5", "6", "7", "8", "9"}

HexDigits == DecDigits \cup {"a", "b", "c", "d", "e", "f", "A", "B", "C", "D", "E", "F"}

AllIn(s, set) == \A i \in 1..Len(s) : Char(s, i) \in set

(***************************************************************************)
(* validate_ip_address: re.match of the two patterns.                      *)
(* re.match anchors at the start of the string; without re.MULTILINE the   *)
(* pattern `$` matches at the end of the string and also just before a     *)
(* newline that is the last character of the string.                       *)
(***************************************************************************)
\* `$` after p characters of s have been consumed
DollarAt(s, p) ==
    \/ p = Len(s)
    \/ p = Len(s) - 1 /\ Char(s, Len(s)) = "\n"

\* 25[0-5]|2[0-4][0-9]|[01]?[0-9][0-9]?  against the whole of g
Octet(g) ==
    \/ Len(g) = 3 /\ Char(g, 1) = "2" /\ Char(g, 2) = "5"
                  /\ Char(g, 3) \in {"0", "1", "2", "3", "4", "5"}
    \/ Len(g) = 3 /\ Char(g, 1) = "2" /\ Char(g, 2) \in {"0", "1", "2", "3", "4"}
                  /\ Char(g, 3) \in DecDigits
    \/ Len(g) = 3 /\ Char(g, 1) \in {"0", "1"} /\ Char(g, 2) \in DecDigits
                  /\ Char(g, 3) \in DecDigits
    \/ Len(g) \in {1, 2} /\ AllIn(g, DecDigits)

\* [0-9a-fA-F]{1,4}  against the whole of g
HexGroup(g) == Len(g) \in 1..4 /\ AllIn(g, HexDigits)

\* (?:(?:OCTET)\.){n} (?:OCTET)$  from position p + 1 of s
RECURSIVE MatchOctets(_, _, _)
MatchOctets(s, p, n) ==
    \E k \in 1..3 :
        /\ p + k <= Len(s)
        /\ Octet(SubSeq(s, p + 1, p + k))
        /\ IF n = 0
           THEN DollarAt(s, p + k)
           ELSE /\ p + k + 1 <= Len(s)
                /\ Char(s, p + k + 1) = "."
                /\ MatchOctets(s, p + k + 1, n - 1)

\* (?:[0-9a-fA-F]{1,4}:){n} [0-9a-fA-F]{1,4}$  from position p + 1 of s
RECURSIVE MatchHexGroups(_, _, _)
MatchHexGroups(s, p, n) ==
    \E k \in 1..4 :
        /\ p + k <= Len(s)
        /\ HexGroup(SubSeq(s, p + 1, p + k))
        /\ IF n = 0
           THEN DollarAt(s, p + k)
           ELSE /\ p + k + 1 <= Len(s)
                /\ Char(s, p + k + 1) = ":"
                /\ MatchHexGroups(s, p + k + 1, n - 1)

\* ^literal$
MatchLiteral(s, lit) == StartsWith(s, lit) /\ DollarAt(s, Len(lit))

ipv4_pattern(s) == MatchOctets(s, 0, 3)

ipv6_pattern(s) ==
    \/ MatchHexGroups(s, 0, 7)
    \/ MatchLiteral(s, "::1")
    \/ MatchLiteral(s, "::")

validate_ip_address(ip) == ipv4_pattern(ip) \/ ipv6_pattern(ip)

(***************************************************************************)
(* Literals (ASCII renderings of the source's texts)                       *)
(***************************************************************************)
UNKNOWN == "unknown"                                    \* "未知"
UNKNOWN_ERROR_TEXT == "unknown error"                   \* "未知错误"
QUERY_FAILED == "query failed"                          \* "查询失败"
TIMEOUT_TEXT == "request timed out, please retry later" \* "请求超时，请稍后重试"
HTTP_ERROR_PREFIX == "HTTP error: "                     \* "HTTP错误: "
UNKNOWN_ERROR_PREFIX == "error during query: "          \* "查询过程中发生错误: "
BACKUP_ERROR_PREFIX == "backup API query failed: "      \* "备用API查询失败: "
INVALID_FORMAT_PREFIX == "[X] invalid IP address format: "  \* "❌ 无效的IP地址格式: "
INVALID_FORMAT_HINT ==
    "please enter a valid IPv4 or IPv6 address\n" \o "e.g.: 8.8.8.8 or 2001:4860:4860::8888"
NO_PUBLIC_IP_TEXT == "[X] cannot obtain the current public IP address"  \* "❌ 无法获取当前公网IP地址"
GET_IP_FAILED_PREFIX == "[X] failed to get the current IP: "            \* "❌ 获取当前IP失败: "
SELF_LOOKUP_HEADER == "[?] current public IP query result\n\n"          \* "🔍 当前公网IP查询结果\n\n"

\* the addresses the docstring and the invalid-format notice give as examples
DocExamples == {"8.8.8.8", "2001:4860:4860::8888"}

(***************************************************************************)
(* Python values                                                           *)
(***************************************************************************)
NoValue == [none |-> TRUE]

\* dict.get(key, default)
Get(d, key, default) == IF key \in DOMAIN d THEN d[key] ELSE default

\* truth value of dict.get(key) for a text-valued key: absent (None) and "" are false
TruthyText(d, key) == key \in DOMAIN d /\ d[key] # ""

\* Python numbers: the int n, or the float of integral value n (n.0)
PyInt(n) == [float |-> FALSE, n |-> n]

PyFloat(n) == [float |-> TRUE, n |-> n]

\* x != 0
NonZero(x) == x.n # 0

\* truth value of dict.get("success")
TruthySuccess(d) == "success" \in DOMAIN d /\ d["success"] = TRUE

\* the outcome of evaluating a block: it returns a value or raises an exception
Return(v) == [raised |-> FALSE, value |-> v, exc |-> NoValue]

Raise(e) == [raised |-> TRUE, value |-> NoValue, exc |-> e]

\* exception classes with their base classes (httpx and the builtins)
Bases(class) ==
    CASE class = "ReadTimeout"     -> {"ReadTimeout", "TimeoutException", "Exception"}
      [] class = "ConnectError"    -> {"ConnectError", "Exception"}
      [] class = "HTTPStatusError" -> {"HTTPStatusError", "Exception"}
      [] class = "JSONDecodeError" -> {"JSONDecodeError", "ValueError", "Exception"}
      [] class = "AttributeError"  -> {"AttributeError", "Exception"}
      [] class = "ValueError"      -> {"ValueError", "Exception"}
      [] class = "IndexError"      -> {"IndexError", "LookupError", "Exception"}
      [] class = "PywhoisError"    -> {"PywhoisError", "Exception"}
      [] class = "TimeoutError"    -> {"TimeoutError", "OSError", "Exception"}
      [] OTHER                     -> {class}

IsInstance(e, class) == class \in Bases(e.class)

Exc(class, msg, code) == [class |-> class, msg |-> msg, status_code |-> code]

(***************************************************************************)
(* One outbound GET with httpx: client.get, raise_for_status, json.        *)
(* A response outcome is [kind, status_code, json, obj]:                   *)
(*   kind "timeout" / "connect_error": client.get raises;                  *)
(*   kind "response": a response with status_code arrived, whose body is   *)
(*   invalid JSON ("invalid"), a JSON value that is no object ("array"),   *)
(*   or the JSON object obj ("object").                                    *)
(***************************************************************************)
Resp(kind, code, json, obj) == [kind |-> kind, status_code |-> code, json |-> json, obj |-> obj]

\* the three calls every request makes; evaluates to the parsed body or raises
http_get_json(resp) ==
    IF resp.kind = "timeout"
    THEN Raise(Exc("ReadTimeout", "", 0))
    ELSE IF resp.kind = "connect_error"
    THEN Raise(Exc("ConnectError", "All connection attempts failed", 0))
    ELSE IF resp.status_code \notin 200..299
    THEN Raise(Exc("HTTPStatusError", "status " \o ToString(resp.status_code), resp.status_code))
    ELSE IF resp.json = "invalid"
    THEN Raise(Exc("JSONDecodeError", "Expecting value: line 1 column 1 (char 0)", 0))
    ELSE Return(resp)

\* data.get(...) on the parsed body: a body that is no dict has no attribute get
no_get_attribute == Exc("AttributeError", "'list' object has no attribute 'get'", 0)

(***************************************************************************)
(* query_ip_location_ipapi: the primary adapter, applied to the outcome of *)
(* its one request.                                                        *)
(***************************************************************************)
\* a variant that fills every omitted textual field with the placeholder
ipapi_try_all_unknown(ip, resp) ==
    LET got == http_get_json(resp) IN
    IF got.raised THEN got
    ELSE IF resp.json # "object" THEN Raise(no_get_attribute)
    ELSE LET body == resp.obj IN
         IF "status" \in DOMAIN body /\ body["status"] = "success"
         THEN Return([success      |-> TRUE,
                      ip           |-> ip,
                      country      |-> Get(body, "country", UNKNOWN),
                      country_code |-> Get(body, "countryCode", UNKNOWN),
                      region       |-> Get(body, "regionName", UNKNOWN),
                      region_code  |-> Get(body, "region", UNKNOWN),
                      city         |-> Get(body, "city", UNKNOWN),
                      zip_code     |-> Get(body, "zip", UNKNOWN),
                      latitude     |-> Get(body, "lat", PyInt(0)),
                      longitude    |-> Get(body, "lon", PyInt(0)),
                      timezone     |-> Get(body, "timezone", UNKNOWN),
                      isp          |-> Get(body, "isp", UNKNOWN),
                      organization |-> Get(body, "org", UNKNOWN),
                      as_number    |-> Get(body, "as", UNKNOWN),
                      query_ip     |-> Get(body, "query", ip)])
         ELSE Return([success    |-> FALSE,
                      ip         |-> ip,
                      error      |-> Get(body, "message", QUERY_FAILED),
                      error_code |-> "API_ERROR"])

\* the try block (lines 31-62)
ipapi_try(ip, resp) ==
    LET got == http_get_json(resp) IN
    IF got.raised THEN got
    ELSE IF resp.json # "object" THEN Raise(no_get_attribute)
    ELSE LET body == resp.obj IN
         IF "status" \in DOMAIN body /\ body["status"] = "success"
         THEN Return([success      |-> TRUE,
                      ip           |-> ip,
                      country      |-> Get(body, "country", UNKNOWN),
                      country_code |-> Get(body, "countryCode", ""),
                      region       |-> Get(body, "regionName", UNKNOWN),
                      region_code  |-> Get(body, "region", ""),
                      city         |-> Get(body, "city", UNKNOWN),
                      zip_code     |-> Get(body, "zip", ""),
                      latitude     |-> Get(body, "lat", PyInt(0)),
                      longitude    |-> Get(body, "lon", PyInt(0)),
                      timezone     |-> Get(body, "timezone", ""),
                      isp          |-> Get(body, "isp", UNKNOWN),
                      organization |-> Get(body, "org", UNKNOWN),
                      as_number    |-> Get(body, "as", ""),
                      query_ip     |-> Get(body, "query", ip)])
         ELSE Return([success    |-> FALSE,
                      ip         |-> ip,
                      error      |-> Get(body, "message", QUERY_FAILED),
                      error_code |-> "API_ERROR"])

\* a variant without the final `except Exception` clause
ipapi_except_no_catch_all(ip, e) ==
    IF IsInstance(e, "TimeoutException")
    THEN Return([success |-> FALSE, ip |-> ip, error |-> TIMEOUT_TEXT,
                 error_code |-> "TIMEOUT"])
    ELSE IF IsInstance(e, "HTTPStatusError")
    THEN Return([success |-> FALSE, ip |-> ip,
                 error |-> HTTP_ERROR_PREFIX \o ToString(e.status_code),
                 error_code |-> "HTTP_ERROR"])
    ELSE Raise(e)

\* a variant whose catch-all clause comes first
ipapi_except_catch_all_first(ip, e) ==
    IF IsInstance(e, "Exception")
    THEN Return([success |-> FALSE, ip |-> ip,
                 error |-> UNKNOWN_ERROR_PREFIX \o e.msg,
                 error_code |-> "UNKNOWN_ERROR"])
    ELSE Raise(e)

\* a variant whose timeout clause lets the timeout go on to the caller
ipapi_except_timeout_escapes(ip, e) ==
    IF IsInstance(e, "TimeoutException")
    THEN Raise(e)
    ELSE IF IsInstance(e, "HTTPStatusError")
    THEN Return([success |-> FALSE, ip |-> ip,
                 error |-> HTTP_ERROR_PREFIX \o ToString(e.status_code),
                 error_code |-> "HTTP_ERROR"])
    ELSE IF IsInstance(e, "Exception")
    THEN Return([success |-> FALSE, ip |-> ip,
                 error |-> UNKNOWN_ERROR_PREFIX \o e.msg,
                 error_code |-> "UNKNOWN_ERROR"])
    ELSE Raise(e)

\* the except clauses (lines 64-84), tried in order
ipapi_except(ip, e) ==
    IF IsInstance(e, "TimeoutException")
    THEN Return([success |-> FALSE, ip |-> ip, error |-> TIMEOUT_TEXT,
                 error_code |-> "TIMEOUT"])
    ELSE IF IsInstance(e, "HTTPStatusError")
    THEN Return([success |-> FALSE, ip |-> ip,
                 error |-> HTTP_ERROR_PREFIX \o ToString(e.status_code),
                 error_code |-> "HTTP_ERROR"])
    ELSE IF IsInstance(e, "Exception")
    THEN Return([success |-> FALSE, ip |-> ip,
                 error |-> UNKNOWN_ERROR_PREFIX \o e.msg,
                 error_code |-> "UNKNOWN_ERROR"])
    ELSE Raise(e)

query_ip_location_ipapi(ip, resp) ==
    LET t == ipapi_try(ip, resp) IN
    IF t.raised THEN ipapi_except(ip, t.exc) ELSE t

(***************************************************************************)
(* query_ip_location_ipinfo: the backup adapter.                           *)
(***************************************************************************)
\* str.split(sep) for a one-character sep: the list of the pieces
RECURSIVE Split(_, _)
Split(s, sep) ==
    IF \E i \in 1..Len(s) : Char(s, i) = sep
    THEN LET i == CHOOSE j \in 1..Len(s) :
                      /\ Char(s, j) = sep
                      /\ \A k \in 1..(j - 1) : Char(s, k) # sep
         IN <<SubSeq(s, 1, i - 1)>> \o Split(SubSeq(s, i + 1, Len(s)), sep)
    ELSE <<s>>

DigitValue(c) ==
    CASE c = "0" -> 0 [] c = "1" -> 1 [] c = "2" -> 2 [] c = "3" -> 3 [] c = "4" -> 4
      [] c = "5" -> 5 [] c = "6" -> 6 [] c = "7" -> 7 [] c = "8" -> 8 [] c = "9" -> 9

\* the value of a non-empty string of decimal digits
RECURSIVE DecimalValue(_)
DecimalValue(s) ==
    IF Len(s) = 0 THEN 0
    ELSE 10 * DecimalValue(SubSeq(s, 1, Len(s) - 1)) + DigitValue(Char(s, Len(s)))

\* float(s), for the texts the model gives it: an optionally signed run of
\* decimal digits is the float of that value; a text with a character that is
\* no part of a number ("north") raises ValueError.
float(s) ==
    LET signed == Len(s) > 0 /\ Char(s, 1) \in {"-", "+"}
        digits == IF signed THEN SubSeq(s, 2, Len(s)) ELSE s
    IN IF Len(digits) > 0 /\ AllIn(digits, DecDigits)
       THEN Return(PyFloat(IF signed /\ Char(s, 1) = "-"
                         THEN 0 - DecimalValue(digits) ELSE DecimalValue(digits)))
       ELSE Raise(Exc("ValueError", "could not convert string to float: '" \o s \o "'", 0))

\* a variant that converts every component, a missing or empty one included
coordinate_strict(location, i) ==
    IF Len(location) >= i THEN float(location[i]) ELSE float("")

\* float(location[i]) if len(location) > i - 1 and location[i] else 0   (1-based i)
coordinate(location, i) ==
    IF Len(location) >= i /\ location[i] # "" THEN float(location[i]) ELSE Return(PyInt(0))

\* the try block (lines 93-117)
ipinfo_try(ip, resp) ==
    LET got == http_get_json(resp) IN
    IF got.raised THEN got
    ELSE IF resp.json # "object" THEN Raise(no_get_attribute)
    ELSE LET body == resp.obj
             location == Split(Get(body, "loc", ""), ",")
             latitude == coordinate(location, 1)
             longitude == coordinate(location, 2)
         IN IF latitude.raised THEN latitude
            ELSE IF longitude.raised THEN longitude
            ELSE Return([success   |-> TRUE,
                         ip        |-> ip,
                         country   |-> Get(body, "country", UNKNOWN),
                         region    |-> Get(body, "region", UNKNOWN),
                         city      |-> Get(body, "city", UNKNOWN),
                         postal    |-> Get(body, "postal", ""),
                         latitude  |-> latitude.value,
                         longitude |-> longitude.value,
                         timezone  |-> Get(body, "timezone", ""),
                         isp       |-> Get(body, "org", UNKNOWN),
                         query_ip  |-> Get(body, "ip", ip)])

\* the except clause (lines 119-125)
ipinfo_except(ip, e) ==
    IF IsInstance(e, "Exception")
    THEN Return([success |-> FALSE, ip |-> ip,
                 error |-> BACKUP_ERROR_PREFIX \o e.msg,
                 error_code |-> "BACKUP_API_ERROR"])
    ELSE Raise(e)

query_ip_location_ipinfo(ip, resp) ==
    LET t == ipinfo_try(ip, resp) IN
    IF t.raised THEN ipinfo_except(ip, t.exc) ELSE t

(***************************************************************************)
(* format_location_info                                                    *)
(***************************************************************************)
\* f"{x}" of a number: str(int) is its decimal text, str(float) of an
\* integral value ends in ".0"
FormatNumber(x) == IF x.float THEN ToString(x.n) \o ".0" ELSE ToString(x.n)

\* a variant whose failure block leaves the error message out
format_failure_no_error(d) ==
    "[X] IP query failed\n"
    \o "IP address: " \o Get(d, "ip", UNKNOWN) \o "\n"

\* lines 134-136: the failure block
format_failure(d) ==
    "[X] IP query failed\n"
    \o "IP address: " \o Get(d, "ip", UNKNOWN) \o "\n"
    \o "error: " \o Get(d, "error", UNKNOWN_ERROR_TEXT)

\* lines 138-182: the success block
format_success(d) ==
         LET lat == Get(d, "latitude", PyInt(0))
             lon == Get(d, "longitude", PyInt(0))
         IN "[*] IP location query result\n\n"
            \o "[?] queried IP: " \o Get(d, "query_ip", Get(d, "ip", UNKNOWN)) \o "\n\n"
            \o "[@] location:\n"
            \o "  country: " \o Get(d, "country", UNKNOWN)
            \o (IF TruthyText(d, "country_code") THEN " (" \o d["country_code"] \o ")" ELSE "")
            \o "\n"
            \o (IF TruthyText(d, "region")
                THEN "  region: " \o d["region"]
                     \o (IF TruthyText(d, "region_code")
                         THEN " (" \o d["region_code"] \o ")" ELSE "")
                     \o "\n"
                ELSE "")
            \o "  city: " \o Get(d, "city", UNKNOWN) \o "\n"
            \o (IF TruthyText(d, "zip_code") \/ TruthyText(d, "postal")
                THEN "  postal code: "
                     \o (IF TruthyText(d, "zip_code") THEN d["zip_code"] ELSE d["postal"])
                     \o "\n"
                ELSE "")
            \o (IF NonZero(lat) \/ NonZero(lon)
                THEN "\n[#] coordinates:\n"
                     \o "  latitude: " \o FormatNumber(lat) \o "\n"
                     \o "  longitude: " \o FormatNumber(lon) \o "\n"
                ELSE "")
            \o "\n[~] network:\n"
            \o "  ISP: " \o Get(d, "isp", UNKNOWN) \o "\n"
            \o (IF TruthyText(d, "organization")
                THEN "  organization: " \o d["organization"] \o "\n" ELSE "")
            \o (IF TruthyText(d, "as_number")
                THEN "  AS number: " \o d["as_number"] \o "\n" ELSE "")
            \o (IF TruthyText(d, "timezone")
                THEN "\n[t] timezone: " \o d["timezone"] \o "\n" ELSE "")

format_location_info(d) ==
    IF ~TruthySuccess(d) THEN format_failure(d) ELSE format_success(d)

(***************************************************************************)
(* The two tools.  The pure parts of each tool are operators; the actions  *)
(* below run them between the tool's suspension points (the awaits).       *)
(***************************************************************************)
\* the invalid-format notice (lines 205-207)
invalid_format_notice(ip) == INVALID_FORMAT_PREFIX \o ip \o "\n" \o INVALID_FORMAT_HINT

\* a variant without the validation guard
query_ip_location_guard_absent(ip) == Raise(NoValue)

\* lines 204-207: the early return of query_ip_location, or no return (the code goes on)
query_ip_location_guard(ip) ==
    IF ~validate_ip_address(ip) THEN Return(invalid_format_notice(ip)) ELSE Raise(NoValue)

\* a variant that calls the backup whatever the primary returned
needs_backup_always(primary) == TRUE

\* a variant that never calls the backup
needs_backup_never(primary) == FALSE

\* line 213 of query_ip_location: `if not result.get("success")`
needs_backup(primary) == ~TruthySuccess(primary)

\* line 248 of get_my_ip_location: the same test, written a second time
get_my_needs_backup(primary) == ~TruthySuccess(primary)

\* a variant that never takes the backup's record
select_result_keep_primary(primary, backup) == primary

\* a variant that takes the backup's record even when it is a Failure
select_result_take_backup(primary, backup) == backup

\* lines 215-216 of query_ip_location: the record kept after the backup call
select_result(primary, backup) == IF TruthySuccess(backup) THEN backup ELSE primary

\* a variant of the copy in get_my_ip_location that always takes the backup's record
get_my_select_result_take_backup(primary, backup) == backup

\* lines 250-251 of get_my_ip_location: the same choice, written a second time
get_my_select_result(primary, backup) == IF TruthySuccess(backup) THEN backup ELSE primary

\* line 218
query_ip_location_return(record) == format_location_info(record)

\* line 253
get_my_ip_location_return(record) == SELF_LOOKUP_HEADER \o format_location_info(record)

\* lines 235-239: the discovery request; evaluates to current_ip or raises.
\* ip_data.get("ip") of a body without the field is None, written "" here:
\* both are false in `if not current_ip`.
discover_current_ip(resp) ==
    LET got == http_get_json(resp) IN
    IF got.raised THEN got
    ELSE IF resp.json # "object" THEN Raise(no_get_attribute)
    ELSE Return(Get(resp.obj, "ip", ""))

\* a variant without the except clause
get_my_ip_location_reraise(e) == Raise(e)

\* lines 255-256: the except clause around the whole body of get_my_ip_location
get_my_ip_location_except(e) ==
    IF IsInstance(e, "Exception") THEN Return(GET_IP_FAILED_PREFIX \o e.msg) ELSE Raise(e)

\* a variant that does not await the primary adapter before going on
after_primary_send_no_await == "call_backup"

\* the position after the primary request is sent: `await` suspends the tool
\* until the primary adapter has returned (lines 210, 245)
after_primary_send == "await_primary"

\* the address the adapters are called with
Addr == IF tool = "query_ip_location" THEN ip_address ELSE current_ip

NoResp == Resp("none", 0, "none", <<>>)

NoResponses == [ipify |-> NoResp, ipapi |-> NoResp, ipinfo |-> NoResp]

(***************************************************************************)
(* Inputs                                                                  *)
(***************************************************************************)
Addresses ==
    {"8.8.8.8", "2001:4860:4860::8888", "2001:db8:0:0:0:0:0:1", "not-an-ip",
     "999.999.999.999", "::ffff", ""}

ErrorResponses ==
    { Resp("timeout", 0, "none", <<>>),
      Resp("connect_error", 0, "none", <<>>),
      Resp("response", 404, "object", <<>>),
      Resp("response", 500, "invalid", <<>>),
      Resp("response", 200, "invalid", <<>>),
      Resp("response", 200, "array", <<>>) }

PrimaryBodies ==
    { [status |-> "success", country |-> "United States", countryCode |-> "US",
       regionName |-> "California", region |-> "CA", city |-> "Mountain View",
       zip |-> "94043", lat |-> PyFloat(37), lon |-> PyFloat(-122), timezone |-> "America/Los_Angeles",
       isp |-> "Google LLC", org |-> "Google Public DNS", as |-> "AS15169 Google LLC",
       query |-> "8.8.8.8"],
      [status |-> "success"],
      [status |-> "success", country |-> "", regionName |-> "", city |-> "Sydney",
       zip |-> "", lat |-> PyInt(0), lon |-> PyInt(151), isp |-> "", org |-> "", as |-> ""],
      [status |-> "fail", message |-> "reserved range", query |-> "8.8.8.8"],
      [status |-> "fail"],
      [message |-> "invalid query"],
      <<>> }

PrimaryResponses ==
    ErrorResponses \cup { Resp("response", 200, "object", b) : b \in PrimaryBodies }

BackupBodies ==
    { [ip |-> "8.8.8.8", city |-> "Mountain View", region |-> "California",
       country |-> "US", loc |-> "37,-122", org |-> "AS15169 Google LLC",
       postal |-> "94043", timezone |-> "America/Los_Angeles"],
      <<>>,
      [country |-> "AU", loc |-> ",151"],
      [country |-> "AU", loc |-> "-33"],
      [country |-> "AU", loc |-> "north,west"],
      [country |-> "AU", loc |-> "-33,east"],
      [error |-> "rate limited"] }

BackupResponses ==
    ErrorResponses \cup { Resp("response", 200, "object", b) : b \in BackupBodies }

DiscoveryBodies ==
    { [ip |-> "203.0.113.7"], [ip |-> "not-an-ip"], [ip |-> ""], <<>> }

DiscoveryResponses ==
    ErrorResponses \cup { Resp("response", 200, "object", b) : b \in DiscoveryBodies }

(***************************************************************************)
(* State machine of one invocation after another                           *)
(***************************************************************************)
Fresh ==
    /\ tool = "none"
    /\ pc = "idle"
    /\ ip_address = ""
    /\ current_ip = ""
    /\ valid = FALSE
    /\ result = NoValue
    /\ backup_result = NoValue
    /\ data = NoValue
    /\ inflight = {}
    /\ calls = <<>>
    /\ requests = <<>>
    /\ responses = NoResponses
    /\ ret = ""
    /\ raised = FALSE

Init ==
    /\ Fresh
    /\ first_failure = ""
    /\ invocations = 0
    /\ OtherServersIdle

\* the host invokes query_ip_location(ip)
query_ip_location_invoke ==
    /\ pc = "idle"
    /\ invocations < MaxInvocations
    /\ \E ip \in Addresses : ip_address' = ip
    /\ tool' = "query_ip_location"
    /\ pc' = "validate"
    /\ UNCHANGED <<current_ip, valid, result, backup_result, data, inflight, calls,
                   requests, responses, ret, raised, first_failure, invocations>>
    /\ UNCHANGED other_vars

\* lines 204-207
query_ip_location_validate ==
    /\ pc = "validate"
    /\ tool = "query_ip_location"
    /\ valid' = validate_ip_address(ip_address)
    /\ LET early == query_ip_location_guard(ip_address) IN
       IF ~early.raised
       THEN ret' = early.value /\ pc' = "done"
       ELSE ret' = ret /\ pc' = "call_primary"
    /\ UNCHANGED <<tool, ip_address, current_ip, result, backup_result, data, inflight,
                   calls, requests, responses, raised, first_failure, invocations>>
    /\ UNCHANGED other_vars

\* the host invokes get_my_ip_location()
get_my_ip_location_invoke ==
    /\ pc = "idle"
    /\ invocations < MaxInvocations
    /\ tool' = "get_my_ip_location"
    /\ pc' = "call_ipify"
    /\ UNCHANGED <<ip_address, current_ip, valid, result, backup_result, data, inflight,
                   calls, requests, responses, ret, raised, first_failure, invocations>>
    /\ UNCHANGED other_vars

\* line 236: the discovery request is sent and awaited
ipify_send ==
    /\ pc = "call_ipify"
    /\ inflight' = inflight \cup {"ipify"}
    /\ requests' = Append(requests, "ipify")
    /\ pc' = "await_ipify"
    /\ UNCHANGED <<tool, ip_address, current_ip, valid, result, backup_result, data,
                   calls, responses, ret, raised, first_failure, invocations>>
    /\ UNCHANGED other_vars

\* a tool returns text with the discovery having failed
ReturnDiscoveryFailure(text) ==
    /\ ret' = text
    /\ first_failure' = IF first_failure = "" THEN text ELSE first_failure
    /\ pc' = "done"

\* lines 236-242, 255-256: the outcome of the discovery request arrives
ipify_receive ==
    /\ pc = "await_ipify"
    /\ \E resp \in DiscoveryResponses :
        LET got == discover_current_ip(resp) IN
        /\ responses' = [responses EXCEPT !.ipify = resp]
        /\ IF got.raised
           THEN LET caught == get_my_ip_location_except(got.exc) IN
                IF caught.raised
                THEN /\ raised' = TRUE /\ pc' = "done"
                     /\ UNCHANGED <<ret, first_failure, current_ip>>
                ELSE /\ ReturnDiscoveryFailure(caught.value)
                     /\ UNCHANGED <<raised, current_ip>>
           ELSE /\ current_ip' = got.value
                /\ raised' = raised
                /\ IF got.value = ""
                   THEN ReturnDiscoveryFailure(NO_PUBLIC_IP_TEXT)
                   ELSE pc' = "call_primary" /\ UNCHANGED <<ret, first_failure>>
    /\ inflight' = inflight \ {"ipify"}
    /\ UNCHANGED <<tool, ip_address, valid, result, backup_result, data, calls, requests,
                   invocations>>
    /\ UNCHANGED other_vars

\* an exception raised by an adapter reaches the tool: query_ip_location has no
\* handler; get_my_ip_location's except clause (lines 255-256) catches it
AdapterRaised(e) ==
    LET caught == IF tool = "get_my_ip_location"
                  THEN get_my_ip_location_except(e) ELSE Raise(e) IN
    /\ pc' = "done"
    /\ raised' = caught.raised
    /\ ret' = IF caught.raised THEN ret ELSE caught.value

\* lines 210 / 245: query_ip_location_ipapi is called and sends its request
primary_send ==
    /\ pc = "call_primary"
    /\ calls' = Append(calls, "query_ip_location_ipapi")
    /\ requests' = Append(requests, "ipapi")
    /\ inflight' = inflight \cup {"ipapi"}
    /\ pc' = after_primary_send
    /\ UNCHANGED <<tool, ip_address, current_ip, valid, result, backup_result, data,
                   responses, ret, raised, first_failure, invocations>>
    /\ UNCHANGED other_vars

\* lines 34-84: the outcome of the primary request arrives; the adapter returns
primary_receive ==
    /\ pc = "await_primary"
    /\ \E resp \in PrimaryResponses :
        LET r == query_ip_location_ipapi(Addr, resp) IN
        /\ responses' = [responses EXCEPT !.ipapi = resp]
        /\ IF r.raised
           THEN AdapterRaised(r.exc) /\ result' = result
           ELSE /\ result' = r.value
                /\ pc' = "primary_returned"
                /\ UNCHANGED <<ret, raised>>
    /\ inflight' = inflight \ {"ipapi"}
    /\ UNCHANGED <<tool, ip_address, current_ip, valid, backup_result, data, calls,
                   requests, first_failure, invocations>>
    /\ UNCHANGED other_vars

\* lines 213 / 248
primary_observed ==
    /\ pc = "primary_returned"
    /\ LET failed == IF tool = "query_ip_location"
                     THEN needs_backup(result) ELSE get_my_needs_backup(result)
       IN pc' = IF failed THEN "call_backup" ELSE "format"
    /\ UNCHANGED <<tool, ip_address, current_ip, valid, result, backup_result, data,
                   inflight, calls, requests, responses, ret, raised, first_failure,
                   invocations>>
    /\ UNCHANGED other_vars

\* lines 214 / 249: query_ip_location_ipinfo is called and sends its request
backup_send ==
    /\ pc = "call_backup"
    /\ calls' = Append(calls, "query_ip_location_ipinfo")
    /\ requests' = Append(requests, "ipinfo")
    /\ inflight' = inflight \cup {"ipinfo"}
    /\ pc' = "await_backup"
    /\ UNCHANGED <<tool, ip_address, current_ip, valid, result, backup_result, data,
                   responses, ret, raised, first_failure, invocations>>
    /\ UNCHANGED other_vars

\* lines 96-125, 215-216 / 250-251: the outcome of the backup request arrives;
\* the adapter returns and the tool keeps one of the two records
backup_receive ==
    /\ pc = "await_backup"
    /\ \E resp \in BackupResponses :
        LET r == query_ip_location_ipinfo(Addr, resp) IN
        /\ responses' = [responses EXCEPT !.ipinfo = resp]
        /\ IF r.raised
           THEN AdapterRaised(r.exc) /\ UNCHANGED <<result, backup_result>>
           ELSE /\ backup_result' = r.value
                /\ result' = IF tool = "query_ip_location"
                             THEN select_result(result, r.value)
                             ELSE get_my_select_result(result, r.value)
                /\ pc' = "format"
                /\ UNCHANGED <<ret, raised>>
    /\ inflight' = inflight \ {"ipinfo"}
    /\ UNCHANGED <<tool, ip_address, current_ip, valid, data, calls, requests,
                   first_failure, invocations>>
    /\ UNCHANGED other_vars

\* lines 218 / 253: the record kept is formatted and returned
format_and_return ==
    /\ pc = "format"
    /\ data' = result
    /\ ret' = IF tool = "query_ip_location"
              THEN query_ip_location_return(result)
              ELSE get_my_ip_location_return(result)
    /\ pc' = "done"
    /\ UNCHANGED <<tool, ip_address, current_ip, valid, result, backup_result, inflight,
                   calls, requests, responses, raised, first_failure, invocations>>
    /\ UNCHANGED other_vars

\* the invocation is over; nothing of it is kept (the tools share no state)
invocation_ends ==
    /\ pc = "done"
    /\ tool \in {"query_ip_location", "get_my_ip_location"}
    /\ tool' = "none"
    /\ pc' = "idle"
    /\ ip_address' = ""
    /\ current_ip' = ""
    /\ valid' = FALSE
    /\ result' = NoValue
    /\ backup_result' = NoValue
    /\ data' = NoValue
    /\ inflight' = {}
    /\ calls' = <<>>
    /\ requests' = <<>>
    /\ responses' = NoResponses
    /\ ret' = ""
    /\ raised' = FALSE
    /\ invocations' = invocations + 1
    /\ UNCHANGED first_failure
    /\ UNCHANGED other_vars

Next ==
    \/ query_ip_location_invoke
    \/ query_ip_location_validate
    \/ get_my_ip_location_invoke
    \/ ipify_send
    \/ ipify_receive
    \/ primary_send
    \/ primary_receive
    \/ primary_observed
    \/ backup_send
    \/ backup_receive
    \/ format_and_return
    \/ invocation_ends

Spec == Init /\ [][Next]_vars

(***************************************************************************)
(* The same machine with its scheduling.  A tool is a coroutine on the     *)
(* event loop: once started, each of its steps that is ready is run        *)
(* (weak fairness on the tool's own steps).  Every outbound request has a  *)
(* timeout of 10 seconds (lines 34, 96, 235), so each request in flight    *)
(* eventually completes or times out (weak fairness on the receive steps). *)
(* The host is under no obligation to invoke a tool.                       *)
(***************************************************************************)
ToolSteps ==
    \/ query_ip_location_validate
    \/ ipify_send
    \/ primary_send
    \/ primary_observed
    \/ backup_send
    \/ format_and_return

RequestsComplete ==
    \/ ipify_receive
    \/ primary_receive
    \/ backup_receive

SpecLive ==
    /\ Init
    /\ [][Next]_vars
    /\ WF_vars(ToolSteps)
    /\ WF_vars(RequestsComplete)

(***************************************************************************)
(* validate_ip_address alone, on candidate strings built from groups,      *)
(* separators and surrounding text                                         *)
(***************************************************************************)
Join4(a, b, c, d, sep) == a \o sep \o b \o sep \o c \o sep \o d

\* n copies of "2001" joined by ":", the i-th replaced by g
RECURSIVE HexJoin(_, _, _)
HexJoin(n, i, g) ==
    IF n = 0 THEN ""
    ELSE (IF n = 1 THEN "" ELSE HexJoin(n - 1, i, g) \o ":")
         \o (IF n = i THEN g ELSE "2001")

OctetTexts == {"0", "8", "99", "199", "249", "255", "256", "001", "1234", "", "a"}

HexTexts == {"0", "2001", "ffff", "FFFF", "AbCd", "12345", "g", ""}

Literals ==
    {"::1", "::", "::ffff", ":::", "1::", "not-an-ip", "", "2001:4860:4860::8888",
     "8.8.8", "8.8.8.8.8", "8:8:8:8", "8.8.8.8.", ".8.8.8.8", "8,8,8,8"}

\* text before and after the core
Affixes ==
    { <<"", "">>, <<"", "\n">>, <<"", "\n\n">>, <<"", " ">>, <<"", "x">>,
      <<"", "\nx">>, <<" ", "">>, <<"x", "">>, <<"\n", "">> }

\* the candidate is a core text (four dotted groups, 7 to 9 colon-separated
\* groups, or one of Literals) with text before and after it
IsCandidate(s) ==
    \E a \in Affixes :
        \/ \E g1 \in OctetTexts, g2 \in OctetTexts, g3 \in OctetTexts, g4 \in OctetTexts :
              s = a[1] \o Join4(g1, g2, g3, g4, ".") \o a[2]
        \/ \E n \in 7..9, i \in 1..9, g \in HexTexts :
              s = a[1] \o HexJoin(n, i, g) \o a[2]
        \/ \E c \in Literals :
              s = a[1] \o c \o a[2]

InitValidate ==
    /\ tool = "validate_ip_address"
    /\ pc = "call"
    /\ IsCandidate(ip_address)
    /\ current_ip = ""
    /\ valid = FALSE
    /\ result = NoValue
    /\ backup_result = NoValue
    /\ data = NoValue
    /\ inflight = {}
    /\ calls = <<>>
    /\ requests = <<>>
    /\ responses = NoResponses
    /\ ret = ""
    /\ raised = FALSE
    /\ first_failure = ""
    /\ invocations = 0
    /\ OtherServersIdle

\* lines 10-22
validate_ip_address_call ==
    /\ tool = "validate_ip_address"
    /\ pc = "call"
    /\ valid' = validate_ip_address(ip_address)
    /\ pc' = "returned"
    /\ UNCHANGED <<tool, ip_address, current_ip, result, backup_result, data, inflight,
                   calls, requests, responses, ret, raised, first_failure, invocations>>
    /\ UNCHANGED other_vars

NextValidate == validate_ip_address_call

SpecValidate == InitValidate /\ [][NextValidate]_vars

\* C8: validate_ip_address returns true exactly when the whole candidate is a
\* dotted quad of four decimal groups each in 0..255 (one to three digits), or
\* eight colon-separated groups of 1 to 4 hexadecimal digits, or "::1" or "::".
DecimalByte(g) == Len(g) \in 1..3 /\ AllIn(g, DecDigits) /\ DecimalValue(g) <= 255

DottedQuad(s) ==
    LET parts == Split(s, ".") IN
    Len(parts) = 4 /\ \A i \in 1..4 : DecimalByte(parts[i])

FullIPv6(s) ==
    LET parts == Split(s, ":") IN
    Len(parts) = 8 /\ \A i \in 1..8 : Len(parts[i]) \in 1..4 /\ AllIn(parts[i], HexDigits)

AddressGrammar(s) == DottedQuad(s) \/ FullIPv6(s) \/ s \in {"::1", "::"}

C8_ValidatorIsTheGrammar ==
    (tool = "validate_ip_address" /\ pc = "returned")
        => (valid <=> AddressGrammar(ip_address))

(***************************************************************************)
(* format_location_info alone, on lookup records of both variants with     *)
(* each optional field absent, empty or set                                *)
(***************************************************************************)
Presence == {"absent", "empty", "set"}

\* the dict {key: value}, {key: ""} (or {key: 0}) or {} according to how
TextField(key, how, value) ==
    IF how = "absent" THEN <<>> ELSE key :> (IF how = "empty" THEN "" ELSE value)

\* likewise for a number: absent, the int 0 ("empty"), the float 0.0 ("zero") or set
NumberField(key, how, value) ==
    IF how = "absent" THEN <<>>
    ELSE key :> (IF how = "empty" THEN PyInt(0) ELSE IF how = "zero" THEN PyFloat(0) ELSE value)

SuccessRecord(ip, qip, names, codes, region, zip, postal, lat, lon, org, asn, tz) ==
    [success |-> TRUE]
        @@ TextField("ip", ip, "8.8.8.8") @@ TextField("query_ip", qip, "8.8.4.4")
        @@ TextField("country", names, "United States")
        @@ TextField("city", names, "Mountain View")
        @@ TextField("isp", names, "Google LLC")
        @@ TextField("country_code", codes, "US") @@ TextField("region_code", codes, "CA")
        @@ TextField("region", region, "California")
        @@ TextField("zip_code", zip, "94043") @@ TextField("postal", postal, "94044")
        @@ NumberField("latitude", lat, PyFloat(37)) @@ NumberField("longitude", lon, PyInt(-122))
        @@ TextField("organization", org, "Google Public DNS")
        @@ TextField("as_number", asn, "AS15169 Google LLC")
        @@ TextField("timezone", tz, "America/Los_Angeles")

FailureRecord(succ, ip, err, code) ==
    succ @@ TextField("ip", ip, "8.8.8.8") @@ TextField("error", err, TIMEOUT_TEXT)
         @@ TextField("error_code", code, "TIMEOUT")

\* d is a lookup record of one of the two variants
IsFormatInput(d) ==
    \/ \E ip \in {"absent", "set"}, qip \in {"absent", "set"},
          names \in Presence, codes \in Presence, region \in Presence,
          zip \in Presence, postal \in Presence, lat \in Presence \cup {"zero"},
          lon \in {"empty", "set"}, org \in Presence, asn \in Presence, tz \in Presence :
          d = SuccessRecord(ip, qip, names, codes, region, zip, postal, lat, lon,
                            org, asn, tz)
    \/ \E succ \in {<<>>, [success |-> FALSE]},
          ip \in Presence, err \in Presence, code \in {"absent", "set"} :
          d = FailureRecord(succ, ip, err, code)

InitFormat ==
    /\ tool = "format_location_info"
    /\ pc = "call"
    /\ IsFormatInput(data)
    /\ ip_address = ""
    /\ current_ip = ""
    /\ valid = FALSE
    /\ result = NoValue
    /\ backup_result = NoValue
    /\ inflight = {}
    /\ calls = <<>>
    /\ requests = <<>>
    /\ responses = NoResponses
    /\ ret = ""
    /\ raised = FALSE
    /\ first_failure = ""
    /\ invocations = 0
    /\ OtherServersIdle

\* lines 127-182
format_location_info_call ==
    /\ tool = "format_location_info"
    /\ pc = "call"
    /\ ret' = format_location_info(data)
    /\ pc' = "returned"
    /\ UNCHANGED <<tool, ip_address, current_ip, valid, result, backup_result, data,
                   inflight, calls, requests, responses, raised, first_failure,
                   invocations>>
    /\ UNCHANGED other_vars

NextFormat == format_location_info_call

SpecFormat == InitFormat /\ [][NextFormat]_vars

(***************************************************************************)
(* mcp_servers/getDomainInfo_server.py: the WHOIS tools.                   *)
(* A Python value that may be None, a str or a list of str is written      *)
(* PyNone, PyStr(s) or PyList(xs).  A datetime is written as the PyStr of  *)
(* its str().                                                              *)
(***************************************************************************)
PyNone == NoValue

PyStr(s) == [str |-> s]

PyList(xs) == [list |-> xs]

IsNone(v) == "none" \in DOMAIN v

IsList(v) == "list" \in DOMAIN v

\* len(v) of a str or a list
PyLen(v) == IF IsList(v) THEN Len(v.list) ELSE Len(v.str)

\* bool(v)
Truthy(v) == ~IsNone(v) /\ PyLen(v) > 0

\* sep.join(xs)
RECURSIVE Join(_, _)
Join(xs, sep) ==
    IF Len(xs) = 0 THEN ""
    ELSE IF Len(xs) = 1 THEN xs[1]
    ELSE xs[1] \o sep \o Join(Tail(xs), sep)

\* str(v), which is what f"{v}" prints
Str(v) ==
    IF IsNone(v) THEN "None"
    ELSE IF IsList(v)
    THEN "[" \o Join([i \in 1..Len(v.list) |-> "'" \o v.list[i] \o "'"], ", ") \o "]"
    ELSE v.str

\* the characters str.strip() removes
Whitespace == {" ", "\t", "\n", "\r"}

\* s.strip()
RECURSIVE Strip(_)
Strip(s) ==
    IF Len(s) = 0 THEN s
    ELSE IF Char(s, 1) \in Whitespace THEN Strip(SubSeq(s, 2, Len(s)))
    ELSE IF Char(s, Len(s)) \in Whitespace THEN Strip(SubSeq(s, 1, Len(s) - 1))
    ELSE s

\* s * n
RECURSIVE Repeat(_, _)
Repeat(s, n) == IF n = 0 THEN "" ELSE s \o Repeat(s, n - 1)

\* the literals of the source, in ASCII
DOMAIN_QUERY_FAILED_PREFIX == "[X] domain query failed: "     \* "❌ 域名查询失败: "
UNKNOWN_DOMAIN == "unknown domain"                            \* "未知域名"
REGISTERED_TEXT == "registered"                               \* "已注册"
UNREGISTERED_TEXT == "unregistered"                           \* "未注册"
NO_STATUS_TEXT == "  * no status information"                 \* "  • 无状态信息"
NO_SERVER_TEXT == "  * no server information"                 \* "  • 无服务器信息"
EMPTY_LIST_TEXT == "[X] please enter a valid domain list"     \* "❌ 请输入有效的域名列表"
SUMMARY_TITLE == "batch domain query summary"                 \* "批量域名查询结果汇总"
CHECK_ERROR_PREFIX == "[X] error checking domain "            \* "❌ 检查域名 {domain} 时出错: "
VERDICT_AVAILABLE == "domain available"                       \* "域名可用"
VERDICT_UNAVAILABLE == "domain unavailable"                   \* "域名不可用"
UNKNOWN_REGISTRAR == "unknown registrar"                      \* "未知注册商"

\* datetime.now().isoformat(): the time of the query
Now == "2026-01-01T00:00:00"

\* f"共 {n} 个域名": the count as the summary header states it
CountText(n) == "total " \o ToString(n) \o " domains"

\* lines 26-51: fetch_domain_info, applied to the outcome of whois.whois(domain)
fetch_domain_info(d, w) ==
    IF w.raised
    THEN IF IsInstance(w.exc, "Exception")
         THEN Return([domain |-> d, error |-> w.exc.msg, query_time |-> Now])
         ELSE w
    ELSE LET domain_info == w.value IN
         Return([domain          |-> d,
                 is_registered   |-> ~IsNone(domain_info.status)
                                        /\ PyLen(domain_info.status) > 0,
                 status          |-> domain_info.status,
                 registrar       |-> domain_info.registrar,
                 creation_date   |-> domain_info.creation_date,
                 expiration_date |-> domain_info.expiration_date,
                 name_servers    |-> domain_info.name_servers,
                 query_time      |-> Now])

\* lines 72-86: the bullet list of a status or of the name servers
bullet_text(v) ==
    IF Truthy(v)
    THEN IF IsList(v)
         THEN Join([i \in 1..Len(v.list) |-> "  * " \o v.list[i]], "\n")
         ELSE "  * " \o Str(v)
    ELSE ""

\* lines 89-94
format_date(date_val) ==
    IF ~Truthy(date_val) THEN UNKNOWN
    ELSE IF IsList(date_val) THEN date_val.list[1]
    ELSE Str(date_val)

\* lines 53-118: format_domain_info; the text block is stripped of the
\* newline it begins and ends with
format_domain_info(d) ==
    IF "error" \in DOMAIN d
    THEN DOMAIN_QUERY_FAILED_PREFIX \o d["error"]
    ELSE LET status_text == bullet_text(Get(d, "status", PyList(<<>>)))
             ns_text == bullet_text(Get(d, "name_servers", PyList(<<>>)))
         IN Strip("\n"
                  \o "[*] domain query result: " \o Get(d, "domain", UNKNOWN_DOMAIN) \o "\n"
                  \o "\n"
                  \o "[=] basic information:\n"
                  \o "  registration: "
                  \o (IF Get(d, "is_registered", FALSE)
                      THEN REGISTERED_TEXT ELSE UNREGISTERED_TEXT) \o "\n"
                  \o "  registrar: " \o Str(Get(d, "registrar", PyStr(UNKNOWN))) \o "\n"
                  \o "  created: "
                  \o format_date(Get(d, "creation_date", PyStr(UNKNOWN))) \o "\n"
                  \o "  expires: "
                  \o format_date(Get(d, "expiration_date", PyStr(UNKNOWN))) \o "\n"
                  \o "\n"
                  \o "[#] domain status:\n"
                  \o (IF status_text # "" THEN status_text ELSE NO_STATUS_TEXT) \o "\n"
                  \o "\n"
                  \o "[~] name servers:\n"
                  \o (IF ns_text # "" THEN ns_text ELSE NO_SERVER_TEXT) \o "\n"
                  \o "\n"
                  \o "[t] query time: " \o Get(d, "query_time", UNKNOWN) \o "\n")

\* line 170: [d.strip() for d in domains.split(',') if d.strip()]
strip_entries(s) ==
    LET parts == Split(s, ",") IN
    SelectSeq([i \in 1..Len(parts) |-> Strip(parts[i])], LAMBDA e : e # "")

\* lines 184-186: the summary of the formatted results
batch_summary(list, formatted) ==
    "[=] " \o SUMMARY_TITLE \o " (" \o CountText(Len(list)) \o ")\n"
    \o Repeat("=", 60) \o "\n\n"
    \o "\n" \o Repeat("=", 60) \o Join(formatted, "\n")

\* lines 213-245: the text check_domain_availability returns for the dict
\* fetch_domain_info gave it
availability_text(d, info) ==
    IF "error" \in DOMAIN info
    THEN CHECK_ERROR_PREFIX \o d \o ": " \o info["error"]
    ELSE LET domain_name == Get(info, "domain", d) IN
         IF Get(info, "is_registered", FALSE)
         THEN LET registrar == Get(info, "registrar", PyStr(UNKNOWN_REGISTRAR))
                  expiration_date == Get(info, "expiration_date", PyStr(UNKNOWN))
                  exp_date == IF IsList(expiration_date) /\ Truthy(expiration_date)
                              THEN PyStr(expiration_date.list[1])
                              ELSE expiration_date
              IN "\n"
                 \o "[-] " \o VERDICT_UNAVAILABLE \o ": " \o domain_name \o "\n"
                 \o "\n"
                 \o "this domain is already registered:\n"
                 \o "  * registrar: " \o Str(registrar) \o "\n"
                 \o "  * expires: " \o Str(exp_date) \o "\n"
                 \o "\n"
                 \o "[i] advice: try a variant of the name or another top-level domain\n"
         ELSE "\n"
              \o "[+] " \o VERDICT_AVAILABLE \o ": " \o domain_name \o "\n"
              \o "\n"
              \o "congratulations! this domain is not registered yet.\n"
              \o "\n"
              \o "[i] next step: register it with a registrar soon\n"

\* a WHOIS record: the attributes of the object whois.whois returns
WhoisRecord(status, registrar, creation_date, expiration_date, name_servers) ==
    [status |-> status, registrar |-> registrar, creation_date |-> creation_date,
     expiration_date |-> expiration_date, name_servers |-> name_servers]

\* the outcomes of whois.whois(domain): a record, or an exception
WhoisOutcomes ==
    { Return(WhoisRecord(PyList(<<"clientTransferProhibited", "ok">>),
                         PyStr("MarkMonitor Inc."),
                         PyStr("1999-10-11 11:05:17"),
                         PyList(<<"2026-10-11 11:05:17", "2026-10-11 00:00:00">>),
                         PyList(<<"ns1.example.net", "ns2.example.net">>))),
      Return(WhoisRecord(PyStr("ok"), PyNone, PyNone, PyStr("2027-01-01 00:00:00"),
                         PyStr("ns1.example.net"))),
      Return(WhoisRecord(PyNone, PyNone, PyNone, PyNone, PyNone)),
      Return(WhoisRecord(PyList(<<>>), PyNone, PyNone, PyList(<<>>), PyList(<<>>))),
      Raise(Exc("PywhoisError", "No match for domain", 0)),
      Raise(Exc("TimeoutError", "timed out", 0)) }

BatchInputs ==
    { "www.baidu.com,www.google.com", "google.com", "a.com, b.com", "a.com,,b.com",
      "a.com,", ",", "", "b.com,a.com,b.com" }

Domains == { "www.baidu.com", "example-test-123456.com", "" }

InitDomain ==
    /\ tool = "none"
    /\ pc = "idle"
    /\ ip_address = ""
    /\ current_ip = ""
    /\ valid = FALSE
    /\ result = NoValue
    /\ backup_result = NoValue
    /\ data = NoValue
    /\ inflight = {}
    /\ calls = <<>>
    /\ requests = <<>>
    /\ responses = NoResponses
    /\ ret = ""
    /\ raised = FALSE
    /\ first_failure = ""
    /\ invocations = 0
    /\ OtherServersIdle

\* the variables of the geolocation and weather servers
not_domain_vars ==
    <<ip_address, current_ip, valid, result, backup_result, inflight, calls, requests,
      responses, first_failure, invocations, city, API_KEY>>

\* the host invokes batch_query_domains(domains)
batch_query_domains_invoke ==
    /\ pc = "idle"
    /\ \E s \in BatchInputs : domains' = s
    /\ tool' = "batch_query_domains"
    /\ pc' = "split"
    /\ UNCHANGED <<domain, domain_list, domain_data, results, lookups, data, ret, raised>>
    /\ UNCHANGED not_domain_vars

\* lines 169-177: the entries are split off; an empty list returns at once
batch_query_domains_split ==
    /\ pc = "split"
    /\ tool = "batch_query_domains"
    /\ domain_list' = strip_entries(domains)
    /\ IF strip_entries(domains) = <<>>
       THEN ret' = EMPTY_LIST_TEXT /\ pc' = "done"
       ELSE ret' = ret /\ pc' = "loop"
    /\ UNCHANGED <<tool, domains, domain, domain_data, results, lookups, data, raised>>
    /\ UNCHANGED not_domain_vars

\* lines 178-181: one turn of the loop: the next domain is looked up and formatted
batch_query_domains_lookup ==
    /\ pc = "loop"
    /\ Len(results) < Len(domain_list)
    /\ \E w \in WhoisOutcomes :
        LET d == domain_list[Len(results) + 1]
            got == fetch_domain_info(d, w)
        IN /\ lookups' = Append(lookups, d)
           /\ IF got.raised
              THEN /\ raised' = TRUE /\ pc' = "done"
                   /\ UNCHANGED <<domain_data, results, data>>
              ELSE /\ data' = got.value
                   /\ domain_data' = Append(domain_data, got.value)
                   /\ results' = Append(results, format_domain_info(got.value))
                   /\ UNCHANGED <<raised, pc>>
    /\ UNCHANGED <<tool, domains, domain, domain_list, ret>>
    /\ UNCHANGED not_domain_vars

\* lines 184-188: the loop is over; the summary is returned
batch_query_domains_return ==
    /\ pc = "loop"
    /\ Len(results) = Len(domain_list)
    /\ ret' = batch_summary(domain_list, results)
    /\ pc' = "done"
    /\ UNCHANGED <<tool, domains, domain, domain_list, domain_data, results, lookups,
                   data, raised>>
    /\ UNCHANGED not_domain_vars

\* the host invokes check_domain_availability(domain)
check_domain_availability_invoke ==
    /\ pc = "idle"
    /\ \E d \in Domains : domain' = d
    /\ tool' = "check_domain_availability"
    /\ pc' = "lookup"
    /\ UNCHANGED <<domains, domain_list, domain_data, results, lookups, data, ret, raised>>
    /\ UNCHANGED not_domain_vars

\* line 211: data = fetch_domain_info(domain)
check_domain_availability_lookup ==
    /\ pc = "lookup"
    /\ tool = "check_domain_availability"
    /\ \E w \in WhoisOutcomes :
        LET got == fetch_domain_info(domain, w) IN
        /\ lookups' = Append(lookups, domain)
        /\ IF got.raised
           THEN /\ raised' = TRUE /\ pc' = "done"
                /\ UNCHANGED <<domain_data, data>>
           ELSE /\ data' = got.value
                /\ domain_data' = Append(domain_data, got.value)
                /\ pc' = "decide"
                /\ UNCHANGED raised
    /\ UNCHANGED <<tool, domains, domain, domain_list, results, ret>>
    /\ UNCHANGED not_domain_vars

\* lines 213-245
check_domain_availability_return ==
    /\ pc = "decide"
    /\ tool = "check_domain_availability"
    /\ ret' = availability_text(domain, data)
    /\ pc' = "done"
    /\ UNCHANGED <<tool, domains, domain, domain_list, domain_data, results, lookups,
                   data, raised>>
    /\ UNCHANGED not_domain_vars

NextDomain ==
    \/ batch_query_domains_invoke
    \/ batch_query_domains_split
    \/ batch_query_domains_lookup
    \/ batch_query_domains_return
    \/ check_domain_availability_invoke
    \/ check_domain_availability_lookup
    \/ check_domain_availability_return

SpecDomain == InitDomain /\ [][NextDomain]_vars

(***************************************************************************)
(* weather_server.py: fetch_weather, format_weather and the tool           *)
(* query_weather.                                                          *)
(***************************************************************************)
MISSING_KEY_ERROR == "Missing OPENWEATHER_API_KEY in environment"
WEATHER_HTTP_ERROR_PREFIX == "HTTP error: "       \* "HTTP 错误: "
REQUEST_FAILED_PREFIX == "request failed: "       \* "请求失败: "
WARNING_PREFIX == "[!] "                          \* "⚠️ "
NOT_AVAILABLE == "N/A"

\* lines 30-31: the early return of fetch_weather, or no return (the code goes on)
fetch_weather_guard(key) ==
    IF key = "" THEN Return([error |-> MISSING_KEY_ERROR]) ELSE Raise(NoValue)

\* lines 42-49: what fetch_weather returns for the outcome of its request; a
\* body that is a JSON array is returned as the list it is
fetch_weather_response(resp) ==
    LET got == http_get_json(resp) IN
    IF ~got.raised
    THEN Return(IF resp.json = "object" THEN resp.obj ELSE PyList(<<>>))
    ELSE IF IsInstance(got.exc, "HTTPStatusError")
    THEN Return([error |-> WEATHER_HTTP_ERROR_PREFIX \o ToString(got.exc.status_code)])
    ELSE IF IsInstance(got.exc, "Exception")
    THEN Return([error |-> REQUEST_FAILED_PREFIX \o got.exc.msg])
    ELSE got

\* f"{x}" of d.get(key, "N/A") for a number x
NumberOr(d, key, default) ==
    IF key \in DOMAIN d THEN FormatNumber(d[key]) ELSE default

\* lines 64-84: format_weather for the values fetch_weather returns (a dict
\* or a list; the str branch of lines 58-62 is for callers that pass JSON text)
format_weather(d) ==
    IF IsList(d)
    THEN Raise(no_get_attribute)
    ELSE IF "error" \in DOMAIN d
    THEN Return(WARNING_PREFIX \o d["error"])
    ELSE LET name == Get(d, "name", UNKNOWN)
             country == Get(Get(d, "sys", <<>>), "country", UNKNOWN)
             temp == NumberOr(Get(d, "main", <<>>), "temp", NOT_AVAILABLE)
             humidity == NumberOr(Get(d, "main", <<>>), "humidity", NOT_AVAILABLE)
             wind_speed == NumberOr(Get(d, "wind", <<>>), "speed", NOT_AVAILABLE)
             weather_list == Get(d, "weather", << <<>> >>)
         IN IF Len(weather_list) = 0
            THEN Raise(Exc("IndexError", "list index out of range", 0))
            ELSE Return("[*] " \o name \o ", " \o country \o "\n"
                        \o "[T] temperature: " \o temp \o " C\n"
                        \o "[H] humidity: " \o humidity \o "%\n"
                        \o "[W] wind speed: " \o wind_speed \o " m/s\n"
                        \o "[S] weather: "
                        \o Get(weather_list[1], "description", UNKNOWN) \o "\n")

\* the dict {key: value}, {key: {}} (or {key: []}) or {} according to how
DictField(key, how, value) ==
    IF how = "absent" THEN <<>> ELSE key :> (IF how = "empty" THEN <<>> ELSE value)

\* a provider response body with each part absent, empty or set; the weather
\* list may also hold one empty dict ("blank")
WeatherBody(name, sys, main, wind, weather) ==
    TextField("name", name, "Beijing")
        @@ DictField("sys", sys, [country |-> "CN"])
        @@ DictField("main", main, [temp |-> PyFloat(21), humidity |-> PyInt(60)])
        @@ DictField("wind", wind, [speed |-> PyFloat(3)])
        @@ (IF weather = "blank" THEN "weather" :> << <<>> >>
            ELSE DictField("weather", weather, <<[description |-> "clear sky"]>>))

WeatherBodies ==
    { WeatherBody(name, sys, main, wind, weather) :
        name \in Presence, sys \in Presence, main \in Presence, wind \in Presence,
        weather \in Presence \cup {"blank"} }

WeatherResponses ==
    ErrorResponses \cup { Resp("response", 200, "object", b) : b \in WeatherBodies }

Cities == {"Beijing", "Changsha"}

ApiKeys == {"", "0123456789abcdef"}

InitWeather ==
    /\ tool = "none"
    /\ pc = "idle"
    /\ API_KEY \in ApiKeys
    /\ city = ""
    /\ ip_address = ""
    /\ current_ip = ""
    /\ valid = FALSE
    /\ result = NoValue
    /\ backup_result = NoValue
    /\ data = NoValue
    /\ inflight = {}
    /\ calls = <<>>
    /\ requests = <<>>
    /\ responses = NoResponses
    /\ ret = ""
    /\ raised = FALSE
    /\ first_failure = ""
    /\ invocations = 0
    /\ domains = ""
    /\ domain = ""
    /\ domain_list = <<>>
    /\ domain_data = <<>>
    /\ results = <<>>
    /\ lookups = <<>>

\* the variables of the geolocation and domain servers
not_weather_vars ==
    <<ip_address, current_ip, valid, result, backup_result, calls, responses,
      first_failure, invocations, domains, domain, domain_list, domain_data, results,
      lookups>>

\* the host invokes query_weather(city)
query_weather_invoke ==
    /\ pc = "idle"
    /\ \E c \in Cities : city' = c
    /\ tool' = "query_weather"
    /\ pc' = "fetch"
    /\ UNCHANGED <<API_KEY, data, inflight, requests, ret, raised>>
    /\ UNCHANGED not_weather_vars

\* lines 30-43: fetch_weather returns at once without a key, and otherwise
\* sends its one request
fetch_weather_begin ==
    /\ pc = "fetch"
    /\ tool = "query_weather"
    /\ LET early == fetch_weather_guard(API_KEY) IN
       IF ~early.raised
       THEN /\ data' = early.value
            /\ pc' = "format"
            /\ UNCHANGED <<inflight, requests>>
       ELSE /\ requests' = Append(requests, "openweather")
            /\ inflight' = inflight \cup {"openweather"}
            /\ pc' = "await_weather"
            /\ data' = data
    /\ UNCHANGED <<tool, city, API_KEY, ret, raised>>
    /\ UNCHANGED not_weather_vars

\* lines 43-49: the outcome of the request arrives; fetch_weather returns
fetch_weather_receive ==
    /\ pc = "await_weather"
    /\ \E resp \in WeatherResponses :
        LET got == fetch_weather_response(resp) IN
        IF got.raised
        THEN raised' = TRUE /\ pc' = "done" /\ data' = data
        ELSE raised' = raised /\ pc' = "format" /\ data' = got.value
    /\ inflight' = inflight \ {"openweather"}
    /\ UNCHANGED <<tool, city, API_KEY, requests, ret>>
    /\ UNCHANGED not_weather_vars

\* line 106: return format_weather(data); query_weather has no handler, so
\* an exception of format_weather leaves the tool
query_weather_return ==
    /\ pc = "format"
    /\ tool = "query_weather"
    /\ LET text == format_weather(data) IN
       IF text.raised
       THEN raised' = TRUE /\ ret' = ret
       ELSE raised' = raised /\ ret' = text.value
    /\ pc' = "done"
    /\ UNCHANGED <<tool, city, API_KEY, data, inflight, requests>>
    /\ UNCHANGED not_weather_vars

NextWeather ==
    \/ query_weather_invoke
    \/ fetch_weather_begin
    \/ fetch_weather_receive
    \/ query_weather_return

SpecWeather == InitWeather /\ [][NextWeather]_vars

(***************************************************************************)
(* Claims                                                                  *)
(***************************************************************************)
Range(seq) == { seq[i] : i \in 1..Len(seq) }

InTool == tool \in {"query_ip_location", "get_my_ip_location"}

\* what each adapter returned in this invocation, from the response it received
PrimaryReturned == InTool /\ responses.ipapi # NoResp

BackupReturned == InTool /\ responses.ipinfo # NoResp

PrimaryOutcome == query_ip_location_ipapi(Addr, responses.ipapi)

BackupOutcome == query_ip_location_ipinfo(Addr, responses.ipinfo)

\* the text the tool in progress returns for a record
ToolText(record) ==
    IF tool = "get_my_ip_location"
    THEN SELF_LOOKUP_HEADER \o format_location_info(record)
    ELSE format_location_info(record)

\* C1: when the primary adapter returned a Success record, the backup
\* adapter is not called in that invocation, no request goes to the backup
\* provider, and the record formatted and returned is the primary's.
C1_PrimarySuccessSkipsBackup ==
    (PrimaryReturned /\ ~PrimaryOutcome.raised /\ TruthySuccess(PrimaryOutcome.value))
        => /\ "query_ip_location_ipinfo" \notin Range(calls)
           /\ "ipinfo" \notin Range(requests)
           /\ "ipinfo" \notin inflight
           /\ responses.ipinfo = NoResp
           /\ backup_result = NoValue
           /\ pc \in {"primary_returned", "format", "done"}
           /\ pc = "done" => /\ data = PrimaryOutcome.value
                             /\ ret = ToolText(PrimaryOutcome.value)

C1_Witness ==
    /\ tool = "query_ip_location"
    /\ pc = "done"
    /\ valid
    /\ PrimaryReturned
    /\ TruthySuccess(PrimaryOutcome.value)
    /\ calls = <<"query_ip_location_ipapi">>

\* C2: when the primary adapter returned Failure and the backup adapter
\* returned Success, the record handed to the formatter is exactly the
\* backup's record: every field equal, and no error or error_code field.
C2_BackupSuccessUnchanged ==
    (/\ PrimaryReturned /\ ~PrimaryOutcome.raised /\ ~TruthySuccess(PrimaryOutcome.value)
     /\ BackupReturned /\ ~BackupOutcome.raised /\ TruthySuccess(BackupOutcome.value))
        => /\ backup_result = BackupOutcome.value
           /\ result = backup_result
           /\ pc \in {"format", "done"}
           /\ pc = "done" => /\ data = backup_result
                             /\ DOMAIN data = DOMAIN BackupOutcome.value
                             /\ "error" \notin DOMAIN data
                             /\ "error_code" \notin DOMAIN data
                             /\ ret = ToolText(backup_result)

C2_Witness ==
    /\ tool = "query_ip_location"
    /\ pc = "done"
    /\ valid
    /\ responses.ipapi.kind = "timeout"
    /\ TruthySuccess(backup_result)
    /\ data = backup_result
    /\ data.latitude = PyFloat(37)

\* C3: when both adapters returned Failure, the result surfaced is the
\* primary's Failure record: its error message and error kind are the
\* primary's, not the backup's message nor BACKUP_API_ERROR.
C3_DoubleFailureKeepsPrimary ==
    (/\ PrimaryReturned /\ ~PrimaryOutcome.raised /\ ~TruthySuccess(PrimaryOutcome.value)
     /\ BackupReturned /\ ~BackupOutcome.raised /\ ~TruthySuccess(BackupOutcome.value))
        => /\ result = PrimaryOutcome.value
           /\ backup_result = BackupOutcome.value
           /\ pc \in {"format", "done"}
           /\ pc = "done" => /\ data = PrimaryOutcome.value
                             /\ data.error = PrimaryOutcome.value.error
                             /\ data.error_code = PrimaryOutcome.value.error_code
                             /\ data.error_code # "BACKUP_API_ERROR"
                             /\ data.error # backup_result.error
                             /\ ret = ToolText(PrimaryOutcome.value)
                             /\ Contains(ret, PrimaryOutcome.value.error)

C3_Witness ==
    /\ tool = "query_ip_location"
    /\ pc = "done"
    /\ valid
    /\ responses.ipapi.status_code = 404
    /\ responses.ipinfo.kind = "connect_error"
    /\ backup_result.error_code = "BACKUP_API_ERROR"
    /\ data.error_code = "HTTP_ERROR"

\* C4: for an input validate_ip_address rejects, query_ip_location returns
\* the invalid-format notice, which contains the input, and makes no adapter
\* call and no outbound request.
C4_InvalidInputNoCalls ==
    (/\ tool = "query_ip_location" /\ pc \notin {"idle", "validate"}
     /\ ~validate_ip_address(ip_address))
        => /\ pc = "done"
           /\ ~raised
           /\ ~valid
           /\ ret = INVALID_FORMAT_PREFIX \o ip_address \o "\n" \o INVALID_FORMAT_HINT
           /\ Contains(ret, ip_address)
           /\ calls = <<>>
           /\ requests = <<>>
           /\ inflight = {}
           /\ responses = NoResponses
           /\ result = NoValue /\ backup_result = NoValue /\ data = NoValue

C4_Witness ==
    /\ tool = "query_ip_location"
    /\ pc = "done"
    /\ ip_address = "not-an-ip"
    /\ ~valid
    /\ StartsWith(ret, INVALID_FORMAT_PREFIX)

\* get_my_ip_location has returned without an address: the discovery request
\* failed or its response carried no ip
DiscoveryFailed == tool = "get_my_ip_location" /\ pc = "done" /\ current_ip = ""

\* the discovery response was a 2xx response with a JSON object as its body
DiscoveryAnswered ==
    /\ responses.ipify.kind = "response"
    /\ responses.ipify.status_code \in 200..299
    /\ responses.ipify.json = "object"

C6_NoExceptionEscapes ==
    /\ ~raised
    /\ (InTool /\ pc = "done") => ret # ""
    /\ PrimaryReturned => /\ ~PrimaryOutcome.raised
                          /\ "success" \in DOMAIN PrimaryOutcome.value
    /\ BackupReturned => /\ ~BackupOutcome.raised
                         /\ "success" \in DOMAIN BackupOutcome.value

C6_Witness ==
    /\ tool = "query_ip_location"
    /\ pc = "done"
    /\ responses.ipapi.kind = "connect_error"
    /\ responses.ipinfo.json = "array"
    /\ ~raised
    /\ ret # ""

\* C7: the backup request is started only after the primary adapter's call
\* has completed and its Failure has been observed; the primary and the
\* backup request are never both in flight.
C7_BackupAfterPrimaryFailure ==
    /\ ~({"ipapi", "ipinfo"} \subseteq inflight)
    /\ Cardinality(inflight) <= 1
    /\ "ipinfo" \in Range(requests)
          => /\ requests[Len(requests)] = "ipinfo"
             /\ "ipapi" \in Range(requests)
             /\ PrimaryReturned
             /\ result # NoValue
             /\ "ipinfo" \in inflight => /\ ~TruthySuccess(result)
                                         /\ result = PrimaryOutcome.value
                                         /\ pc = "await_backup"

C7_Witness ==
    /\ "ipinfo" \in inflight
    /\ "ipapi" \notin inflight
    /\ result.error_code = "TIMEOUT"

\* C9: the addresses the documentation and the notice of query_ip_location
\* give as examples of valid input are accepted by the validator:
\* query_ip_location goes on to the primary lookup for them and does not
\* return the invalid-format notice.
C9_DocExamplesAccepted ==
    (tool = "query_ip_location" /\ pc \notin {"idle", "validate"}
     /\ ip_address \in DocExamples)
        => /\ valid
           /\ ~StartsWith(ret, INVALID_FORMAT_PREFIX)
           /\ pc = "done" => "query_ip_location_ipapi" \in Range(calls)

\* C10: format_location_info returns a non-empty string for every record of
\* either variant; for a Failure record the string contains the record's
\* address and its error message.
C10_FormatTotal ==
    (tool = "format_location_info" /\ pc = "returned")
        => /\ Len(ret) > 0
           /\ ~TruthySuccess(data)
                => /\ "ip" \in DOMAIN data => Contains(ret, data.ip)
                   /\ "error" \in DOMAIN data => Contains(ret, data.error)

C10_Witness ==
    /\ tool = "format_location_info"
    /\ pc = "returned"
    /\ ~TruthySuccess(data)
    /\ "ip" \in DOMAIN data /\ data.ip = "8.8.8.8"
    /\ "error" \in DOMAIN data /\ data.error = TIMEOUT_TEXT
    /\ Contains(ret, "8.8.8.8")
    /\ Contains(ret, TIMEOUT_TEXT)

\* the primary response is a 2xx response whose body is a JSON object
PrimaryAnswered ==
    /\ responses.ipapi.kind = "response"
    /\ responses.ipapi.status_code \in 200..299
    /\ responses.ipapi.json = "object"

\* C11: the primary adapter maps each failure outcome to exactly one error
\* kind: a body whose status is not "success" to API_ERROR with the
\* provider's message (the generic query-failed text when it has none), a
\* timeout to TIMEOUT, a non-2xx status to HTTP_ERROR with the status code in
\* the message, every other exception (connection error, malformed payload)
\* to UNKNOWN_ERROR; every Failure carries the requested address.
C11_PrimaryErrorKinds ==
    PrimaryReturned
        => LET resp == responses.ipapi
               r == PrimaryOutcome.value
           IN /\ ~PrimaryOutcome.raised
              /\ pc = "primary_returned" => result = r
              /\ TruthySuccess(r)
                    <=> (PrimaryAnswered /\ Get(resp.obj, "status", "") = "success")
              /\ ~TruthySuccess(r)
                    => /\ r.ip = Addr
                       /\ DOMAIN r = {"success", "ip", "error", "error_code"}
                       /\ r.error_code =
                            (IF resp.kind = "timeout" THEN "TIMEOUT"
                             ELSE IF resp.kind = "connect_error" THEN "UNKNOWN_ERROR"
                             ELSE IF resp.status_code \notin 200..299 THEN "HTTP_ERROR"
                             ELSE IF resp.json # "object" THEN "UNKNOWN_ERROR"
                             ELSE "API_ERROR")
                       /\ r.error_code = "API_ERROR"
                            => r.error = (IF "message" \in DOMAIN resp.obj
                                          THEN resp.obj.message ELSE QUERY_FAILED)
                       /\ r.error_code = "TIMEOUT" => r.error = TIMEOUT_TEXT
                       /\ r.error_code = "HTTP_ERROR"
                            => /\ StartsWith(r.error, HTTP_ERROR_PREFIX)
                               /\ Contains(r.error, ToString(resp.status_code))
                       /\ r.error_code = "UNKNOWN_ERROR"
                            => StartsWith(r.error, UNKNOWN_ERROR_PREFIX)

C11_Witness ==
    /\ tool = "query_ip_location"
    /\ pc = "primary_returned"
    /\ responses.ipapi.status_code = 500
    /\ result.error_code = "HTTP_ERROR"
    /\ result.ip = ip_address
    /\ Contains(result.error, "500")

\* the primary provider answered with a body whose status is "success"
PrimarySucceeded ==
    /\ PrimaryReturned
    /\ PrimaryAnswered
    /\ Get(responses.ipapi.obj, "status", "") = "success"

\* the textual fields of the primary's Success record with the provider's key
PrimaryNameFields ==
    { <<"country", "country">>, <<"region", "regionName">>, <<"city", "city">>,
      <<"isp", "isp">>, <<"organization", "org">> }

PrimaryCodeFields ==
    { <<"country_code", "countryCode">>, <<"region_code", "region">>,
      <<"zip_code", "zip">>, <<"timezone", "timezone">>, <<"as_number", "as">> }

\* the record's field f is the provider's value under key, or default
MappedOr(r, body, f, default) ==
    r[f[1]] = (IF f[2] \in DOMAIN body THEN body[f[2]] ELSE default)

\* C12 (as claimed): on provider success the primary adapter returns a
\* Success record in which every textual field the provider omitted holds
\* the "unknown" placeholder, an omitted latitude or longitude holds 0, and
\* the resolved address is the echoed address or else the requested one.
C12_OmittedTextIsUnknown ==
    PrimarySucceeded
        => LET body == responses.ipapi.obj
               r == PrimaryOutcome.value
           IN /\ TruthySuccess(r)
              /\ \A f \in PrimaryNameFields \cup PrimaryCodeFields :
                    MappedOr(r, body, f, UNKNOWN)
              /\ MappedOr(r, body, <<"latitude", "lat">>, PyInt(0))
              /\ MappedOr(r, body, <<"longitude", "lon">>, PyInt(0))
              /\ MappedOr(r, body, <<"query_ip", "query">>, Addr)

\* C12 (amended): on provider success the primary adapter returns a Success
\* record for the requested address in which an omitted country, region,
\* city, ISP or organization holds the "unknown" placeholder, an omitted
\* country code, region code, zip code, timezone or AS number holds the empty
\* string, an omitted latitude or longitude holds 0, and the resolved address
\* is the echoed address or else the requested one.
C12_SuccessDefaults ==
    PrimarySucceeded
        => LET body == responses.ipapi.obj
               r == PrimaryOutcome.value
           IN /\ ~PrimaryOutcome.raised
              /\ TruthySuccess(r)
              /\ pc = "primary_returned" => result = r
              /\ r.ip = Addr
              /\ \A f \in PrimaryNameFields : MappedOr(r, body, f, UNKNOWN)
              /\ \A f \in PrimaryCodeFields : MappedOr(r, body, f, "")
              /\ MappedOr(r, body, <<"latitude", "lat">>, PyInt(0))
              /\ MappedOr(r, body, <<"longitude", "lon">>, PyInt(0))
              /\ MappedOr(r, body, <<"query_ip", "query">>, Addr)
              /\ DOMAIN r = {"success", "ip", "latitude", "longitude", "query_ip"}
                            \cup { f[1] : f \in PrimaryNameFields \cup PrimaryCodeFields }

C12_Witness ==
    /\ tool = "query_ip_location"
    /\ pc = "primary_returned"
    /\ responses.ipapi.obj = [status |-> "success"]
    /\ result.country = UNKNOWN
    /\ result.zip_code = ""
    /\ result.latitude = PyInt(0)
    /\ result.query_ip = ip_address

\* the backup response is a 2xx response whose body is a JSON object
BackupAnswered ==
    /\ responses.ipinfo.kind = "response"
    /\ responses.ipinfo.status_code \in 200..299
    /\ responses.ipinfo.json = "object"

\* the pieces of the "lat,lon" text of the backup response
BackupLoc == Split(Get(responses.ipinfo.obj, "loc", ""), ",")

\* the i-th piece of the "lat,lon" text is missing or empty
NoComponent(i) == Len(BackupLoc) < i \/ BackupLoc[i] = ""

\* the i-th piece of the "lat,lon" text is there and is no number
BadComponent(i) == ~NoComponent(i) /\ float(BackupLoc[i]).raised

\* C13: every failure of the backup adapter (timeout, non-2xx status,
\* connection error, unparseable body, unparseable "lat,lon" text) yields the
\* one error kind BACKUP_API_ERROR, never API_ERROR, TIMEOUT, HTTP_ERROR or
\* UNKNOWN_ERROR; a missing or empty latitude or longitude component yields 0
\* and no failure.
C13_BackupOneErrorKind ==
    BackupReturned
        => LET r == BackupOutcome.value
           IN /\ ~BackupOutcome.raised
              /\ backup_result # NoValue => backup_result = r
              /\ TruthySuccess(r)
                    <=> (BackupAnswered /\ ~BadComponent(1) /\ ~BadComponent(2))
              /\ ~TruthySuccess(r)
                    => /\ r.error_code = "BACKUP_API_ERROR"
                       /\ r.error_code \notin {"API_ERROR", "TIMEOUT", "HTTP_ERROR",
                                               "UNKNOWN_ERROR"}
                       /\ r.ip = Addr
                       /\ StartsWith(r.error, BACKUP_ERROR_PREFIX)
                       /\ DOMAIN r = {"success", "ip", "error", "error_code"}
              /\ TruthySuccess(r)
                    => /\ NoComponent(1) => r.latitude = PyInt(0)
                       /\ NoComponent(2) => r.longitude = PyInt(0)
                       /\ ~NoComponent(1) => r.latitude = float(BackupLoc[1]).value
                       /\ ~NoComponent(2) => r.longitude = float(BackupLoc[2]).value

C13_Witness ==
    /\ tool = "query_ip_location"
    /\ pc = "format"
    /\ responses.ipinfo.kind = "response"
    /\ responses.ipinfo.obj = [country |-> "AU", loc |-> "-33,east"]
    /\ backup_result.error_code = "BACKUP_API_ERROR"
    /\ backup_result.ip = ip_address
    /\ result.error_code # "BACKUP_API_ERROR"

\* format_location_info has returned the text of a Success record
FormattedSuccess ==
    tool = "format_location_info" /\ pc = "returned" /\ TruthySuccess(data)

\* each optional section or line is in the text exactly when its value is
\* there: the coordinates, the postal code, the organization, the AS number
\* and the timezone
OptionalPartsIffValue ==
    /\ Contains(ret, "\n[#] coordinates:\n")
          <=> (NonZero(Get(data, "latitude", PyInt(0)))
               \/ NonZero(Get(data, "longitude", PyInt(0))))
    /\ Contains(ret, "  latitude: ") <=> Contains(ret, "\n[#] coordinates:\n")
    /\ Contains(ret, "  longitude: ") <=> Contains(ret, "\n[#] coordinates:\n")
    /\ Contains(ret, "  postal code: ")
          <=> (TruthyText(data, "zip_code") \/ TruthyText(data, "postal"))
    /\ Contains(ret, "  organization: ") <=> TruthyText(data, "organization")
    /\ Contains(ret, "  AS number: ") <=> TruthyText(data, "as_number")
    /\ Contains(ret, "\n[t] timezone: ") <=> TruthyText(data, "timezone")

\* a line "label: value" of the text has an empty value
EmptyValuePrinted ==
    \/ Contains(ret, ": \n")
    \/ Contains(ret, "  country:  (")

\* C17: for every Success record, format_location_info emits the coordinates
\* section iff latitude or longitude is non-zero, the postal line iff a
\* postal or zip value is non-empty, the organization line iff organization
\* is non-empty, the AS-number line iff the AS number is non-empty and the
\* timezone line iff timezone is non-empty; no section or line is printed
\* with an empty value.
C17_NoEmptyValuePrinted ==
    FormattedSuccess => (OptionalPartsIffValue /\ ~EmptyValuePrinted)

\* what the fallback logic of query_ip_location (lines 210-218) makes of an
\* address a and the outcomes p, b of the two requests: the adapter calls in
\* their order, and the text returned
QueryCalls(a, p) ==
    IF needs_backup(query_ip_location_ipapi(a, p).value)
    THEN <<"query_ip_location_ipapi", "query_ip_location_ipinfo">>
    ELSE <<"query_ip_location_ipapi">>

QueryText(a, p, b) ==
    LET primary == query_ip_location_ipapi(a, p).value IN
    query_ip_location_return(
        IF needs_backup(primary)
        THEN select_result(primary, query_ip_location_ipinfo(a, b).value)
        ELSE primary)

\* the requests that go with a sequence of adapter calls
RequestsOf(cs) ==
    [i \in 1..Len(cs) |-> IF cs[i] = "query_ip_location_ipapi" THEN "ipapi" ELSE "ipinfo"]

\* C18: the fallback logic written a second time in get_my_ip_location is
\* equivalent to that of query_ip_location: for every discovered address and
\* every combination of primary and backup outcomes, get_my_ip_location
\* returns the self-lookup header followed by exactly the text the selection
\* and formatter of query_ip_location produce for that address and those
\* outcomes, with the same adapter calls in the same order; the discovered
\* address is not validated.
C18_SelfLookupSameFallback ==
    /\ (tool = "get_my_ip_location" /\ pc = "done" /\ current_ip # "")
          => /\ ~raised
             /\ calls = QueryCalls(current_ip, responses.ipapi)
             /\ requests = <<"ipify">> \o RequestsOf(calls)
             /\ ret = SELF_LOOKUP_HEADER
                      \o QueryText(current_ip, responses.ipapi, responses.ipinfo)
             /\ ~valid
    /\ (tool = "query_ip_location" /\ pc = "done" /\ valid)
          => /\ ~raised
             /\ calls = QueryCalls(ip_address, responses.ipapi)
             /\ requests = RequestsOf(calls)
             /\ ret = QueryText(ip_address, responses.ipapi, responses.ipinfo)

C18_Witness ==
    /\ tool = "get_my_ip_location"
    /\ pc = "done"
    /\ current_ip = "not-an-ip"
    /\ ~validate_ip_address(current_ip)
    /\ calls = <<"query_ip_location_ipapi", "query_ip_location_ipinfo">>
    /\ responses.ipapi.kind = "connect_error"
    /\ TruthySuccess(backup_result)
    /\ ret = SELF_LOOKUP_HEADER \o format_location_info(backup_result)

\* how many times x occurs in the sequence
Count(seq, x) == Cardinality({ i \in 1..Len(seq) : seq[i] = x })

\* C19: in one invocation of query_ip_location on a valid address the primary
\* adapter is called exactly once and the backup adapter at most once; the
\* backup is called exactly once if the primary returned a Failure, of
\* whatever kind, and not at all otherwise; each adapter call issues exactly
\* one outbound request, so the invocation makes at most two geolocation
\* requests and never retries.
C19_AtMostTwoRequests ==
    (tool = "query_ip_location" /\ valid /\ pc # "validate")
        => /\ Count(calls, "query_ip_location_ipapi") =
                 (IF pc = "call_primary" THEN 0 ELSE 1)
           /\ Count(calls, "query_ip_location_ipinfo") <= 1
           /\ Len(calls) <= 2
           /\ requests = RequestsOf(calls)
           /\ Count(requests, "ipapi") = Count(calls, "query_ip_location_ipapi")
           /\ Count(requests, "ipinfo") = Count(calls, "query_ip_location_ipinfo")
           /\ "ipify" \notin Range(requests)
           /\ pc \in {"await_backup", "format", "done"}
                 => (Count(calls, "query_ip_location_ipinfo") = 1
                        <=> ~TruthySuccess(PrimaryOutcome.value))
           /\ pc = "done" => /\ inflight = {}
                             /\ calls = QueryCalls(ip_address, responses.ipapi)

C19_Witness ==
    /\ tool = "query_ip_location"
    /\ valid
    /\ pc = "done"
    /\ calls = <<"query_ip_location_ipapi", "query_ip_location_ipinfo">>
    /\ requests = <<"ipapi", "ipinfo">>
    /\ responses.ipapi.obj = [status |-> "fail"]
    /\ backup_result.error_code = "BACKUP_API_ERROR"
    /\ data.error_code = "API_ERROR"

\* the primary request of the invocation in progress has timed out
PrimaryTimedOut == InTool /\ responses.ipapi.kind = "timeout"

\* C20: given that every outbound request eventually completes or times
\* out, every invocation of either tool eventually returns, and returns one
\* string; a primary timeout ends only that request: it becomes a Failure
\* value of kind TIMEOUT and is followed by the backup call, and the
\* invocation does not end before the backup has been called.
C20_EveryInvocationReturns ==
    /\ (InTool /\ pc # "done") ~> (InTool /\ pc = "done" /\ ~raised /\ ret # "")
    /\ [](InTool /\ pc # "done" => ret = "")
    /\ [][(InTool /\ pc = "done") => (ret' = ret \/ pc' = "idle")]_vars
    /\ [](PrimaryTimedOut
            => /\ ~raised
               /\ pc # "await_primary"
               /\ pc = "primary_returned" => /\ ~TruthySuccess(result)
                                             /\ result.error_code = "TIMEOUT"
               /\ pc = "done" => "query_ip_location_ipinfo" \in Range(calls))
    /\ (PrimaryTimedOut /\ pc = "primary_returned")
          ~> (PrimaryTimedOut /\ pc = "await_backup" /\ "ipinfo" \in inflight)

C20_Witness ==
    /\ tool = "get_my_ip_location"
    /\ pc = "done"
    /\ PrimaryTimedOut
    /\ requests = <<"ipify", "ipapi", "ipinfo">>
    /\ inflight = {}
    /\ ~raised
    /\ StartsWith(ret, SELF_LOOKUP_HEADER)

\* batch_query_domains has returned a result summary
SummaryReturned ==
    tool = "batch_query_domains" /\ pc = "done" /\ ~raised /\ Contains(ret, SUMMARY_TITLE)

\* the summary is made of the lookups of these entries: one WHOIS lookup per
\* entry, in order, and the formatted result of each in the summary, in order
SummaryOf(entries) ==
    /\ Contains(ret, CountText(Len(entries)))
    /\ Len(lookups) = Len(entries)
    /\ Len(domain_data) = Len(entries)
    /\ \A i \in 1..Len(entries) :
          /\ lookups[i] = Strip(entries[i])
          /\ domain_data[i].domain = lookups[i]
          /\ Contains(ret, format_domain_info(domain_data[i]))
    /\ LET tail == Join([i \in 1..Len(entries) |-> format_domain_info(domain_data[i])],
                        "\n")
       IN SubSeq(ret, Len(ret) - Len(tail) + 1, Len(ret)) = tail

\* C14: for every input string that yields a result summary, the domain
\* count in the summary header equals the number of comma-separated entries
\* of the input (len(domains.split(',')), as test_batch_query_domains
\* expects), and the summary contains the formatted result of each entry,
\* one WHOIS lookup per entry, in input order.
C14_CountIsCommaEntries ==
    SummaryReturned => SummaryOf(Split(domains, ","))

\* the WHOIS record fetch_domain_info read has a non-empty status
HasStatus(info) == "status" \in DOMAIN info /\ Truthy(info["status"])

\* C15: for every domain and every WHOIS outcome, check_domain_availability
\* returns a non-empty string that contains one of the two verdicts, and the
\* verdict is "unavailable" exactly when the WHOIS record has a non-empty
\* status.
C15_VerdictAlwaysPresent ==
    (tool = "check_domain_availability" /\ pc = "done")
        => /\ ~raised
           /\ Len(Strip(ret)) > 0
           /\ Contains(ret, VERDICT_AVAILABLE) \/ Contains(ret, VERDICT_UNAVAILABLE)
           /\ ~(Contains(ret, VERDICT_AVAILABLE) /\ Contains(ret, VERDICT_UNAVAILABLE))
           /\ Contains(ret, VERDICT_UNAVAILABLE) <=> HasStatus(data)

\* C16: query_weather never raises: for every value fetch_weather can return
\* (an error dict, or a provider response with any of name, sys, main, wind
\* and weather missing, or with an empty weather list) format_weather returns
\* a string; when the API key is not configured the string returned is the
\* missing-key error and no outbound request is made.
C16_WeatherNeverRaises ==
    tool = "query_weather"
        => /\ ~raised
           /\ pc = "done" => Len(ret) > 0
           /\ API_KEY = "" => /\ requests = <<>>
                              /\ inflight = {}
                              /\ pc = "done" => ret = WARNING_PREFIX \o MISSING_KEY_ERROR

====
